---- MODULE Spec2Model ----
(***************************************************************************)
(* Model of the python-utils package:                                      *)
(*   utils/case.py        identifier conversion between camelCase,         *)
(*                        snake_case and kebab-case;                       *)
(*   utils/setdefault.py  setdefault(value, default, ...), the             *)
(*                        "fill in from a default, optionally merging"     *)
(*                        helper and its preset entry points.              *)
(* Python strings are sequences of one-character strings; Python objects   *)
(* live in a heap indexed by object identity.                              *)
(***************************************************************************)
EXTENDS Integers, Sequences, FiniteSets, TLC

VARIABLES
    facility,   \* which of the two facilities this run exercises
    pc,         \* position of the caller: "ready", "split", "done"
    string,     \* case.py: the argument `string` of convert / words
    src,        \* case.py: the source style class
    dest,       \* case.py: the destination style class
    ws,         \* case.py: the list returned by src.words(string)
    out,        \* case.py: what the call returned or raised
    heap,       \* setdefault.py: object id -> Python object
    args,       \* setdefault.py: the arguments of the call
    ret         \* setdefault.py: what the call returned or raised

vars == <<facility, pc, string, src, dest, ws, out, heap, args, ret>>

caseVars == <<string, src, dest, ws, out>>
sdVars == <<heap, args, ret>>

(***************************************************************************)
(* Bounds of the model.                                                    *)
(***************************************************************************)
\* longest input string handed to convert / words
MaxLen == 5

\* longest list and largest set element among the setdefault arguments
MaxItems == 2

(***************************************************************************)
(* Characters.  The classes are those the three WORD_PATTERNs and the      *)
(* str methods lower() and title() tell apart.                             *)
(***************************************************************************)
LowerChars == {"a", "b"}
UpperChars == {"A", "B"}
DigitChars == {"1"}
Chars == LowerChars \cup UpperChars \cup DigitChars \cup {"_", "-"}

\* str.lower() on one character
LowerOf(c) ==
    CASE c = "A" -> "a"
      [] c = "B" -> "b"
      [] OTHER -> c

\* str.upper() on one character
UpperOf(c) ==
    CASE c = "a" -> "A"
      [] c = "b" -> "B"
      [] OTHER -> c

\* whether a character is cased (a letter), as str.title() asks
IsCased(c) == c \in LowerChars \cup UpperChars

\* str.lower()
Lower(w) == [i \in 1..Len(w) |-> LowerOf(w[i])]

\* str.upper(), where str.title() was meant
Upper(w) == [i \in 1..Len(w) |-> UpperOf(w[i])]

\* str.title(): a cased character that follows an uncased one (or starts the
\* string) is uppercased, every other cased character is lowercased.
Title(w) ==
    [i \in 1..Len(w) |->
        IF i > 1 /\ IsCased(w[i - 1]) THEN LowerOf(w[i]) ELSE UpperOf(w[i])]

(***************************************************************************)
(* Results of a call: a returned value or a raised exception.              *)
(***************************************************************************)
\* case.py: a returned string or a raised exception
Return(v) == [exc |-> "none", val |-> v]
Raise(e) == [exc |-> e, val |-> <<>>]

\* None, as a reference
None == 0

\* setdefault.py: a returned reference or a raised exception
Returns(x) == [exc |-> "none", val |-> x]
Raises(e) == [exc |-> e, val |-> None]

(***************************************************************************)
(* Regular-expression matching, as re.findall scans: at each position the  *)
(* pattern is tried; a match emits a word and the scan resumes at the end  *)
(* of the match, a failure moves the scan one character on.                *)
(***************************************************************************)
\* the end (exclusive) of the greedy run of characters of class C from i
RECURSIVE Span(_, _, _)
Span(s, i, C) ==
    IF i <= Len(s) /\ s[i] \in C THEN Span(s, i + 1, C) ELSE i

NoMatch == [from |-> 0, to |-> 0, end |-> 0]

\* [A-Z_][a-z0-9_]*: the pattern without its alternative \A[a-z_]
CamelMatch_no_start(s, i) ==
    IF s[i] \in UpperChars \cup {"_"}
    THEN LET e == Span(s, i + 1, LowerChars \cup DigitChars \cup {"_"})
         IN [from |-> i, to |-> e, end |-> e]
    ELSE NoMatch

\* CamelCase.WORD_PATTERN  (?:\A[a-z_]|[A-Z_])[a-z0-9_]*  tried at position i;
\* no group, so findall emits the whole match
CamelMatch(s, i) ==
    IF \/ (i = 1 /\ s[i] \in LowerChars \cup {"_"})
       \/ s[i] \in UpperChars \cup {"_"}
    THEN LET e == Span(s, i + 1, LowerChars \cup DigitChars \cup {"_"})
         IN [from |-> i, to |-> e, end |-> e]
    ELSE NoMatch

\* the group ([wordChars]+), without the extra separators sep*
GroupMatch_no_extra(s, g, sep, wordChars) ==
    LET e == Span(s, g, wordChars)
    IN IF e > g THEN [from |-> g, to |-> e, end |-> e] ELSE NoMatch

\* the group (sep*[wordChars]+) tried from position g: greedy sep*, then
\* greedy wordChars+; the two classes are disjoint, so giving back
\* separators never turns a failure into a match
GroupMatch(s, g, sep, wordChars) ==
    LET k == Span(s, g, {sep})
        e == Span(s, k, wordChars)
    IN IF e > k THEN [from |-> g, to |-> e, end |-> e] ELSE NoMatch

\* (?:\A|sep)(sep*[wordChars]+) tried at position i: the alternative \A
\* first, then the alternative sep; findall emits group 1
SepMatch(s, i, sep, wordChars) ==
    LET viaStart == IF i = 1 THEN GroupMatch(s, i, sep, wordChars) ELSE NoMatch
        viaSep == IF s[i] = sep THEN GroupMatch(s, i + 1, sep, wordChars)
                  ELSE NoMatch
    IN IF viaStart.end # 0 THEN viaStart ELSE viaSep

\* SnakeCase.WORD_PATTERN  (?:\A|_)(_*[A-Za-z0-9]+)
SnakeMatch(s, i) ==
    SepMatch(s, i, "_", LowerChars \cup UpperChars \cup DigitChars)

\* KebabCase.WORD_PATTERN  (?:\A|-)(-*[A-Za-z0-9_]+)
KebabMatch(s, i) ==
    SepMatch(s, i, "-", LowerChars \cup UpperChars \cup DigitChars \cup {"_"})

Styles == {"CamelCase", "SnakeCase", "KebabCase"}

\* cls.WORD_PATTERN tried at position i
WORD_PATTERN(cls, s, i) ==
    CASE cls = "CamelCase" -> CamelMatch(s, i)
      [] cls = "SnakeCase" -> SnakeMatch(s, i)
      [] cls = "KebabCase" -> KebabMatch(s, i)

RECURSIVE FindAll(_, _, _)
FindAll(cls, s, i) ==
    IF i > Len(s) THEN <<>>
    ELSE LET m == WORD_PATTERN(cls, s, i)
         IN IF m.end # 0
            THEN <<SubSeq(s, m.from, m.to - 1)>> \o FindAll(cls, s, m.end)
            ELSE FindAll(cls, s, i + 1)

\* CaseStyle.words
words(cls, s) == FindAll(cls, s, 1)

\* ''.join / '_'.join / '-'.join over a list of strings
RECURSIVE Join(_, _)
Join(sep, l) ==
    IF l = <<>> THEN <<>>
    ELSE IF Len(l) = 1 THEN l[1]
    ELSE l[1] \o sep \o Join(sep, Tail(l))

\* CamelCase.fmt: words[0] raises IndexError on an empty list
CamelFmt(l) ==
    IF l = <<>> THEN Raise("IndexError")
    ELSE Return(Lower(l[1])
                \o Join(<<>>, [i \in 1..(Len(l) - 1) |-> Title(l[i + 1])]))

\* SnakeCase.fmt
SnakeFmt(l) == Return(Join(<<"_">>, [i \in 1..Len(l) |-> Lower(l[i])]))

\* KebabCase.fmt
KebabFmt(l) == Return(Join(<<"-">>, [i \in 1..Len(l) |-> Lower(l[i])]))

\* cls.fmt
fmt(cls, l) ==
    CASE cls = "CamelCase" -> CamelFmt(l)
      [] cls = "SnakeCase" -> SnakeFmt(l)
      [] cls = "KebabCase" -> KebabFmt(l)

\* convert(string, src, dest)
convert(s, a, b) == fmt(b, words(a, s))

\* the parameters setdefault runs with, and the entry point called
Args(entry, value, default, cls, ml, ms, md, depth) ==
    [entry |-> entry, value |-> value, default |-> default, cls |-> cls,
     merge_lists |-> ml, merge_sets |-> ms, merge_dicts |-> md,
     depth |-> depth]

(***************************************************************************)
(* The caller of case.py.                                                  *)
(***************************************************************************)
Strings == UNION {[1..n -> Chars] : n \in 0..MaxLen}

NoResult == Raise("pending")
NoReturn == Raises("pending")

InitCase ==
    /\ facility = "case"
    /\ pc = "ready"
    /\ string \in Strings
    /\ src \in Styles
    /\ dest \in Styles
    /\ ws = <<>>
    /\ out = NoResult
    /\ heap = <<>>
    /\ args = Args("none", None, None, "None", FALSE, FALSE, FALSE, 1)
    /\ ret = NoReturn

\* word list = src.words(string)
Words ==
    /\ facility = "case"
    /\ pc = "ready"
    /\ ws' = words(src, string)
    /\ pc' = "split"
    /\ UNCHANGED <<facility, string, src, dest, out, sdVars>>

\* dest.fmt(word list)
Fmt ==
    /\ facility = "case"
    /\ pc = "split"
    /\ out' = fmt(dest, ws)
    /\ pc' = "done"
    /\ UNCHANGED <<facility, string, src, dest, ws, sdVars>>

\* convert(string, src, dest)
Convert ==
    /\ facility = "case"
    /\ pc = "ready"
    /\ ws' = words(src, string)
    /\ out' = convert(string, src, dest)
    /\ pc' = "done"
    /\ UNCHANGED <<facility, string, src, dest, sdVars>>

NextCase == Words \/ Fmt \/ Convert

SpecCase == InitCase /\ [][NextCase]_vars

(***************************************************************************)
(* setdefault.py.  A Python object is a record of its type and contents:   *)
(* an int, a dict (key -> object), a list (of ints) or a set (of ints).    *)
(* Objects are held by reference: a reference is an index of the heap, and *)
(* None is the reference 0.                                                *)
(***************************************************************************)
\* every object carries the same fields; the one its type uses holds its
\* contents and the others are empty
Object(t, n, items, elems, members) ==
    [t |-> t, n |-> n, items |-> items, elems |-> elems, members |-> members]

PyInt(n) == Object("int", n, <<>>, <<>>, {})
PyDict(f) == Object("dict", 0, f, <<>>, {})
PyList(l) == Object("list", 0, <<>>, l, {})
PySet(S) == Object("set", 0, <<>>, <<>>, S)

\* the names bound in the namespace of setdefault.py: its two imports
\* (lines 1 and 3) and its five function definitions
ModuleGlobals ==
    {"partial", "merge", "setdefault", "_setdefault_dict", "_setdefault_set",
     "_setdefault_list", "_setdefault_all"}

\* whether evaluating a global name finds it; where it does not, the
\* evaluation raises NameError
IsBound(name) == name \in ModuleGlobals

\* what a call leaves behind: the heap and the value returned or the
\* exception raised
Outcome(h, r) == [heap |-> h, res |-> r]

\* a new object is allocated and a reference to it returned
New(h, obj) == Outcome(Append(h, obj), Returns(Len(h) + 1))

\* the elements of a set of ints in iteration order (ascending, for the
\* small ints of the model)
RECURSIVE Ascending(_)
Ascending(S) ==
    IF S = {} THEN <<>>
    ELSE LET m == CHOOSE x \in S : \A y \in S : x <= y
         IN <<m>> \o Ascending(S \ {m})

\* the elements of a list as a set
Range(l) == {l[i] : i \in 1..Len(l)}

\* iter(obj): the sequence of what iterating the object yields (a dict
\* yields its keys, in insertion order: ascending for the dicts of the model)
Iterate(obj) ==
    CASE obj.t = "dict" -> Ascending(DOMAIN obj.items)
      [] obj.t = "list" -> obj.elems
      [] obj.t = "set" -> Ascending(obj.members)

\* what cls(obj) builds for cls in dict, list, set: an instance of cls with
\* the contents of obj, or TypeError (dict of a non-empty list or set of ints)
Built(cls, obj) ==
    CASE cls = "dict" ->
            IF obj.t = "dict" THEN [exc |-> "none", obj |-> PyDict(obj.items)]
            ELSE IF Iterate(obj) = <<>> THEN [exc |-> "none", obj |-> PyDict(<<>>)]
            ELSE [exc |-> "TypeError", obj |-> PyInt(0)]
      [] cls = "list" -> [exc |-> "none", obj |-> PyList(Iterate(obj))]
      [] cls = "set" -> [exc |-> "none", obj |-> PySet(Range(Iterate(obj)))]

\* a conversion that rewrites its argument in place and returns it
Construct_in_place(h, cls, x) ==
    IF x = None THEN Outcome(h, Raises("TypeError"))
    ELSE LET b == Built(cls, h[x])
         IN IF b.exc # "none" THEN Outcome(h, Raises(b.exc))
            ELSE Outcome([h EXCEPT ![x] = b.obj], Returns(x))

\* cls(x) for a reference x: a new object, or TypeError (None is not iterable)
Construct(h, cls, x) ==
    IF x = None THEN Outcome(h, Raises("TypeError"))
    ELSE LET b == Built(cls, h[x])
         IN IF b.exc # "none" THEN Outcome(h, Raises(b.exc))
            ELSE New(h, b.obj)

\* cls(*elements): list() is a new empty list; list(n) for an int n and
\* list(a, b, ...) raise TypeError
ConstructFromElements(h, cls, elems) ==
    IF cls = "list" /\ elems = <<>> THEN New(h, PyList(<<>>))
    ELSE Outcome(h, Raises("TypeError"))

\* type(value)
TypeOf(h, x) == h[x].t

\* issubclass(cls, abc) for cls in dict, list, set and the abstract classes
\* Mapping, Set, MutableSequence
issubclass(cls, abc) ==
    \/ (abc = "Mapping" /\ cls = "dict")
    \/ (abc = "Set" /\ cls = "set")
    \/ (abc = "MutableSequence" /\ cls = "list")

\* merge_mappings(None, default, value, _type=cls): setdefault.py binds the
\* name nowhere (line 3 imports the name merge only), so evaluating it
\* raises NameError before any call is made
merge_mappings(h, default, value, cls) == Outcome(h, Raises("NameError"))

_setdefault_dict(h, value, default, cls) ==
    IF ~IsBound("Mapping") THEN Outcome(h, Raises("NameError"))
    ELSE IF issubclass(cls, "Mapping")
    THEN merge_mappings(h, default, value, cls)
    ELSE Outcome(h, Returns(value))

_setdefault_set(h, value, default, cls) ==
    IF ~IsBound("Set") THEN Outcome(h, Raises("NameError"))
    ELSE IF issubclass(cls, "Set")
    THEN IF h[value].t = "set" /\ h[default].t = "set"
         THEN New(h, PySet(h[value].members \cup h[default].members))
         ELSE Outcome(h, Raises("TypeError"))
    ELSE Outcome(h, Returns(value))

_setdefault_list(h, value, default, cls) ==
    IF ~IsBound("MutableSequence") THEN Outcome(h, Raises("NameError"))
    ELSE IF issubclass(cls, "MutableSequence")
    THEN ConstructFromElements(h, cls, Iterate(h[default]) \o Iterate(h[value]))
    ELSE Outcome(h, Returns(value))

\* the merge flags dispatched before the absence rules
setdefault_merge_first(h, value, default, cls, merge_lists, merge_sets, merge_dicts, depth) ==
    IF merge_dicts THEN _setdefault_dict(h, value, default, cls)
    ELSE IF merge_lists THEN _setdefault_list(h, value, default, cls)
    ELSE IF merge_sets THEN _setdefault_set(h, value, default, cls)
    ELSE IF value = None
    THEN IF cls # "None" THEN Construct(h, cls, default)
         ELSE Outcome(h, Returns(default))
    ELSE IF default = None
    THEN IF cls # "None" THEN Construct(h, cls, value)
         ELSE Outcome(h, Returns(value))
    ELSE Outcome(h, Returns(value))

\* setdefault(value, default, cls, merge_lists, merge_sets, merge_dicts,
\* depth); cls is "None" when omitted.  depth is accepted and read nowhere.
setdefault(h, value, default, cls, merge_lists, merge_sets, merge_dicts, depth) ==
    IF value = None
    THEN IF cls # "None" THEN Construct(h, cls, default)
         ELSE Outcome(h, Returns(default))
    ELSE IF default = None
    THEN IF cls # "None" THEN Construct(h, cls, value)
         ELSE Outcome(h, Returns(value))
    ELSE LET c == IF cls = "None" THEN TypeOf(h, value) ELSE cls
         IN IF merge_dicts THEN _setdefault_dict(h, value, default, c)
            ELSE IF merge_lists THEN _setdefault_list(h, value, default, c)
            ELSE IF merge_sets THEN _setdefault_set(h, value, default, c)
            ELSE Outcome(h, Returns(value))

\* _setdefault_all(value, default, cls), bound to setdefault.merge_all
_setdefault_all(h, value, default, cls) ==
    setdefault(h, value, default, cls, TRUE, TRUE, TRUE, 1)

(***************************************************************************)
(* The caller of setdefault.py.                                            *)
(***************************************************************************)
\* the ints held by the lists and sets of the model
Elems == 0..2

\* the keys of the dicts of the model
DictKeys == {1, 2}

\* what a dict of the model holds under a key: an int or a nested dict
DictEntries ==
    {PyInt(1), PyInt(2), PyDict(1 :> PyInt(1)), PyDict(2 :> PyInt(2))}

Dicts == {PyDict(f) : f \in UNION {[K -> DictEntries] : K \in SUBSET DictKeys}}
Lists == {PyList(l) : l \in UNION {[1..n -> Elems] : n \in 0..MaxItems}}
Sets == {PySet(S) : S \in SUBSET Elems}
Objects == Dicts \cup Lists \cup Sets

Classes == {"None", "dict", "list", "set"}
Depths == {-1, 1}

\* value, default and cls as the caller holds them before the call: value
\* and default are each None or an object of their own
Held(objs, value, default, cls) ==
    /\ heap = objs
    /\ args = Args("none", value, default, cls, FALSE, FALSE, FALSE, 1)

InitSetdefault ==
    /\ facility = "setdefault"
    /\ pc = "ready"
    /\ \E cls \in Classes :
          \/ Held(<<>>, None, None, cls)
          \/ \E o \in Objects : Held(<<o>>, 1, None, cls)
          \/ \E o \in Objects : Held(<<o>>, None, 1, cls)
          \/ \E o1 \in Objects, o2 \in Objects : Held(<<o1, o2>>, 1, 2, cls)
    /\ ret = NoReturn
    /\ string = <<>>
    /\ src = "CamelCase"
    /\ dest = "CamelCase"
    /\ ws = <<>>
    /\ out = NoResult

\* one call, through any entry point, with the parameters it runs with
Run(entry, ml, ms, md, depth) ==
    LET o == setdefault(heap, args.value, args.default, args.cls,
                        ml, ms, md, depth)
    IN /\ facility = "setdefault"
       /\ pc = "ready"
       /\ heap' = o.heap
       /\ ret' = o.res
       /\ args' = Args(entry, args.value, args.default, args.cls,
                       ml, ms, md, depth)
       /\ pc' = "done"
       /\ UNCHANGED <<facility, caseVars>>

\* setdefault(value, default, cls, merge_lists=, merge_sets=, merge_dicts=,
\* depth=)
Setdefault ==
    \E ml \in BOOLEAN, ms \in BOOLEAN, md \in BOOLEAN, depth \in Depths :
        Run("setdefault", ml, ms, md, depth)

\* setdefault.merge_all(value, default, cls)
MergeAll ==
    LET o == _setdefault_all(heap, args.value, args.default, args.cls)
    IN /\ facility = "setdefault"
       /\ pc = "ready"
       /\ heap' = o.heap
       /\ ret' = o.res
       /\ args' = Args("merge_all", args.value, args.default, args.cls,
                       TRUE, TRUE, TRUE, 1)
       /\ pc' = "done"
       /\ UNCHANGED <<facility, caseVars>>

\* setdefault.merge_dicts(value, default, cls, depth=): partial(setdefault,
\* merge_dicts=True)
MergeDicts == \E depth \in Depths : Run("merge_dicts", FALSE, FALSE, TRUE, depth)

\* setdefault.merge_lists(value, default, cls, depth=)
MergeLists == \E depth \in Depths : Run("merge_lists", TRUE, FALSE, FALSE, depth)

\* setdefault.merge_sets(value, default, cls, depth=)
MergeSets == \E depth \in Depths : Run("merge_sets", FALSE, TRUE, FALSE, depth)

NextSetdefault == Setdefault \/ MergeAll \/ MergeDicts \/ MergeLists \/ MergeSets

SpecSetdefault == InitSetdefault /\ [][NextSetdefault]_vars

(***************************************************************************)
(* The package: a run exercises one facility or the other.                 *)
(***************************************************************************)
Init == InitCase \/ InitSetdefault

Next == NextCase \/ NextSetdefault

Spec == Init /\ [][Next]_vars

(***************************************************************************)
(* Vocabulary of the claims about case.py.                                 *)
(***************************************************************************)
\* the separator a style joins its words with
Separator(cls) ==
    CASE cls = "CamelCase" -> <<>>
      [] cls = "SnakeCase" -> <<"_">>
      [] cls = "KebabCase" -> <<"-">>

\* first character uppercased, the remaining characters lowercased
Capitalize(w) ==
    [i \in 1..Len(w) |-> IF i = 1 THEN UpperOf(w[i]) ELSE LowerOf(w[i])]

\* the canonical form of a list of lowercase words in a style
Canon(cls, l) ==
    IF cls = "CamelCase"
    THEN Join(<<>>, [i \in 1..Len(l) |-> IF i = 1 THEN l[i] ELSE Capitalize(l[i])])
    ELSE Join(Separator(cls), l)

\* s cut at every occurrence of the character sep (as str.split does)
RECURSIVE CutAt(_, _)
CutAt(s, sep) ==
    LET k == Span(s, 1, Chars \ {sep})
    IN IF k > Len(s) THEN <<s>>
       ELSE <<SubSeq(s, 1, k - 1)>> \o CutAt(SubSeq(s, k + 1, Len(s)), sep)

\* s cut before every uppercase letter, the pieces lowercased
RECURSIVE CutBeforeUpper(_)
CutBeforeUpper(s) ==
    IF s = <<>> THEN <<>>
    ELSE LET k == Span(s, 2, Chars \ UpperChars)
         IN <<Lower(SubSeq(s, 1, k - 1))>>
            \o CutBeforeUpper(SubSeq(s, k, Len(s)))

\* the only list of words whose canonical form in the style can be s
CanonWords(cls, s) ==
    CASE cls = "CamelCase" -> CutBeforeUpper(s)
      [] cls = "SnakeCase" -> CutAt(s, "_")
      [] cls = "KebabCase" -> CutAt(s, "-")

IsLowerWord(w) == w # <<>> /\ \A i \in 1..Len(w) : w[i] \in LowerChars

\* s is the canonical form, in the style, of a non-empty list of non-empty
\* words made of lowercase letters
IsCanonical(cls, s) ==
    LET l == CanonWords(cls, s)
    IN /\ l # <<>>
       /\ \A i \in 1..Len(l) : IsLowerWord(l[i])
       /\ Canon(cls, l) = s

\* s is an identifier of the style: letters, digits and underscores (kebab:
\* and hyphens), not starting with a digit
IsIdentifier(cls, s) ==
    /\ \A i \in 1..Len(s) : s[i] # "-" \/ cls = "KebabCase"
    /\ s = <<>> \/ s[1] \notin DigitChars

\* s without its trailing run of the style's separator
RECURSIVE StripTrailing(_, _)
StripTrailing(s, sep) ==
    IF sep # <<>> /\ s # <<>> /\ s[Len(s)] = sep[1]
    THEN StripTrailing(SubSeq(s, 1, Len(s) - 1), sep)
    ELSE s

\* C1: convert applied to the canonical src-form of a non-empty list of
\* lowercase words returns the canonical dest-form of the same words, for
\* every pair of styles.
C1_CanonicalConversion ==
    (facility = "case" /\ pc = "done" /\ IsCanonical(src, string))
        => out = Return(Canon(dest, CanonWords(src, string)))

\* a conversion of a canonical identifier of two words or more to another style
C1_Witness ==
    /\ facility = "case" /\ pc = "done"
    /\ IsCanonical(src, string)
    /\ Len(CanonWords(src, string)) >= 2
    /\ src # dest
    /\ out.exc = "none"

\* C8: same-style conversion is idempotent wherever the string has words:
\* converting the result of convert(s, A, A) again gives that result.
C8_SameStyleIdempotent ==
    (facility = "case" /\ pc = "done" /\ src = dest /\ ws # <<>>)
        => /\ out.exc = "none"
           /\ convert(out.val, src, src) = out

\* a same-style conversion that changed the string it was given
C8_Witness ==
    /\ facility = "case" /\ pc = "done"
    /\ src = dest /\ ws # <<>>
    /\ out.exc = "none" /\ out.val # string
    /\ Len(ws) >= 2

\* C9: CamelCase.fmt returns the first word lowercased followed by every
\* later word with its first character uppercased and the rest lowercased.
C9_CamelFmtCapitalizes ==
    (facility = "case" /\ pc = "done" /\ dest = "CamelCase" /\ ws # <<>>)
        => out = Return(Lower(ws[1])
                        \o Join(<<>>, [i \in 1..(Len(ws) - 1) |->
                                          Capitalize(ws[i + 1])]))

\* C10: segmentation of an identifier of the style emits no empty word and
\* loses nothing but trailing separators; the empty string has no words.
C10_SegmentationTotal ==
    (facility = "case" /\ pc \in {"split", "done"} /\ IsIdentifier(src, string))
        => /\ \A i \in 1..Len(ws) : ws[i] # <<>>
           /\ Join(Separator(src), ws) = StripTrailing(string, Separator(src))
           /\ (string = <<>> => ws = <<>>)

\* an identifier of two words with a trailing separator, segmented
C10_Witness ==
    /\ facility = "case" /\ pc = "split"
    /\ src = "SnakeCase"
    /\ IsIdentifier(src, string)
    /\ Len(ws) = 2
    /\ string[Len(string)] = "_"

(***************************************************************************)
(* Vocabulary of the claims about setdefault.py.                           *)
(***************************************************************************)
\* a call of setdefault, through any entry point, has returned or raised
Called == facility = "setdefault" /\ pc = "done"

BothPresent == args.value # None /\ args.default # None

\* value and default are both present objects of the type
BothOfType(type) ==
    /\ BothPresent
    /\ heap[args.value].t = type
    /\ heap[args.default].t = type

\* the call returned a reference to an object
ReturnedObject == ret.exc = "none" /\ ret.val # None

\* the call returned a new object: neither argument, allocated by the call
ReturnedNew ==
    /\ ReturnedObject
    /\ ret.val \notin {args.value, args.default}

\* the result is cls(x) for the argument x: what cls builds from x, as a
\* new object, or the TypeError that cls raises
ResultIsCoerced(x) ==
    IF x = None THEN ret = Raises("TypeError")
    ELSE LET b == Built(args.cls, heap[x])
         IN IF b.exc # "none" THEN ret = Raises(b.exc)
            ELSE ReturnedNew /\ heap[ret.val] = b.obj

\* the result is the argument x itself
ResultIs(x) == ret = Returns(x)

\* a merge applies to the call: both arguments present, and the first set
\* flag (dicts, then lists, then sets) meets an effective type of its kind
MergeApplies ==
    /\ BothPresent
    /\ LET c == IF args.cls = "None" THEN heap[args.value].t ELSE args.cls
       IN \/ (args.merge_dicts /\ c = "dict")
          \/ (~args.merge_dicts /\ args.merge_lists /\ c = "list")
          \/ (~args.merge_dicts /\ ~args.merge_lists /\ args.merge_sets
              /\ c = "set")

\* C2: the absence rules come first: a None value gives default (cls(default)
\* when cls is given), otherwise a None default gives value (cls(value) when
\* cls is given), whatever the merge flags.
C2_AbsenceRulesFirst ==
    Called =>
        /\ args.value = None =>
              IF args.cls = "None" THEN ResultIs(args.default)
              ELSE ResultIsCoerced(args.default)
        /\ (args.value # None /\ args.default = None) =>
              IF args.cls = "None" THEN ResultIs(args.value)
              ELSE ResultIsCoerced(args.value)

\* a call with a None value, a present default, cls given and a merge flag
\* set, which returned cls(default)
C2_Witness ==
    /\ Called
    /\ args.value = None /\ args.default # None
    /\ args.cls = "set" /\ heap[args.default].t = "list"
    /\ args.merge_dicts
    /\ ReturnedNew

\* C3: with merge_dicts set and two dicts, the result is a dict over the
\* union of the keys, with value's entry under every key of value and
\* default's entry under every key of default alone.
C3_DictMergeUnion ==
    (Called /\ BothOfType("dict") /\ args.merge_dicts
            /\ args.cls \in {"None", "dict"})
        => /\ ReturnedObject
           /\ LET r == heap[ret.val].items
                  v == heap[args.value].items
                  d == heap[args.default].items
              IN /\ heap[ret.val].t = "dict"
                 /\ DOMAIN r = DOMAIN v \cup DOMAIN d
                 /\ \A k \in DOMAIN v : r[k] = v[k]
                 /\ \A k \in DOMAIN d \ DOMAIN v : r[k] = d[k]

\* C4: with merge_lists set (merge_dicts not) and two lists, the result is a
\* new list holding default's elements followed by value's elements.
C4_ListMergePrepends ==
    (Called /\ BothOfType("list") /\ args.merge_lists /\ ~args.merge_dicts
            /\ args.cls \in {"None", "list"})
        => /\ ReturnedNew
           /\ heap[ret.val]
                = PyList(heap[args.default].elems \o heap[args.value].elems)

\* C5: with merge_sets set and two sets, the result is their union, whatever
\* the other two flags, merge_all included.
C5_SetMergeUnion ==
    (Called /\ BothOfType("set") /\ args.merge_sets
            /\ args.cls \in {"None", "set"})
        => /\ ReturnedObject
           /\ heap[ret.val]
                = PySet(heap[args.value].members \cup heap[args.default].members)

\* C6: with merge_dicts set, depth bounds the merge: under a key that holds
\* a dict in both value and default, depth = 1 keeps value's entry as it is,
\* and depth = -1 gives the merge of the two nested dicts.
C6_DepthBoundsMerge ==
    (Called /\ BothOfType("dict") /\ args.merge_dicts
            /\ args.cls \in {"None", "dict"})
        => \A k \in DOMAIN heap[args.value].items
                      \cap DOMAIN heap[args.default].items :
              LET v == heap[args.value].items[k]
                  d == heap[args.default].items[k]
              IN (v.t = "dict" /\ d.t = "dict") =>
                    /\ ReturnedObject
                    /\ heap[ret.val].t = "dict"
                    /\ k \in DOMAIN heap[ret.val].items
                    /\ LET r == heap[ret.val].items[k]
                       IN IF args.depth = 1 THEN r = v
                          ELSE /\ r.t = "dict"
                               /\ DOMAIN r.items
                                    = DOMAIN v.items \cup DOMAIN d.items
                               /\ \A j \in DOMAIN v.items :
                                     r.items[j] = v.items[j]
                               /\ \A j \in DOMAIN d.items \ DOMAIN v.items :
                                     r.items[j] = d.items[j]

\* C7: a call leaves every object it was given as it was; what it returns is
\* an argument itself only where no merge applies, and is otherwise an
\* object that did not exist before the call.
C7_ArgumentsUntouched ==
    [][(facility = "setdefault" /\ pc = "ready" /\ pc' = "done") =>
          /\ \A x \in 1..Len(heap) : x <= Len(heap') /\ heap'[x] = heap[x]
          /\ (ret'.exc = "none" /\ ret'.val # None) =>
                IF ret'.val \in {args'.value, args'.default}
                THEN ~MergeApplies'
                ELSE ret'.val \notin 1..Len(heap)]_vars

\* a call that returned a new object built from a present argument
C7_Witness ==
    /\ Called
    /\ args.value # None /\ args.default = None
    /\ args.cls = "list" /\ heap[args.value].t = "dict"
    /\ ReturnedNew
    /\ heap[ret.val].elems # <<>>

====
